---- MODULE Spec2Model ----
(***************************************************************************)
(* Model of nle/env/inventory.py: InventoryStatsTracker, the per-episode   *)
(* inventory-change tracker, and the snapshot extractor it is built on.    *)
(*                                                                         *)
(* Text is modelled as sequences of one-character strings.  The byte 0 of  *)
(* a raw inventory line is the token NUL and a byte that is not valid      *)
(* UTF-8 is the token BAD.  Python dictionaries and Counters are functions *)
(* whose DOMAIN is the set of keys present.  Python's None is NoIndex for  *)
(* an index, NoLabel for a label, NoObservation for an observation and     *)
(* NoSnapshot for a snapshot.                                              *)
(***************************************************************************)
EXTENDS Integers, Sequences, FiniteSets, TLC

(***************************************************************************)
(* Bounds of the model.                                                    *)
(***************************************************************************)
NumSlots == 2
MaxCalls == 3
MaxTokens == 2

(***************************************************************************)
(* Python values.                                                          *)
(***************************************************************************)
NoIndex == -1
NoLabel == "<None>"
NoObservation == << >>
NoSnapshot == [none |-> TRUE]
EmptyMap == [k \in {} |-> 0]

NUL == "NUL"
BAD == "BAD"
WhiteSpace == {" ", "\t"}
Digits == {"0", "1", "2", "3", "4", "5", "6", "7", "8", "9"}
UpperToLower ==
    [A |-> "a", B |-> "b", C |-> "c", D |-> "d", E |-> "e", F |-> "f",
     G |-> "g", H |-> "h", I |-> "i", J |-> "j", K |-> "k", L |-> "l",
     M |-> "m", N |-> "n", O |-> "o", P |-> "p", Q |-> "q", R |-> "r",
     S |-> "s", T |-> "t", U |-> "u", V |-> "v", W |-> "w", X |-> "x",
     Y |-> "y", Z |-> "z"]
Letters == DOMAIN UpperToLower \cup {UpperToLower[c] : c \in DOMAIN UpperToLower}

\* str.lower()
LowerChar(c) == IF c \in DOMAIN UpperToLower THEN UpperToLower[c] ELSE c
Lower(s) == [i \in 1..Len(s) |-> LowerChar(s[i])]

\* s[n:]
DropFirst(s, n) == SubSeq(s, n + 1, Len(s))

\* str.startswith(prefix)
StartsWith(s, prefix) ==
    /\ Len(s) >= Len(prefix)
    /\ SubSeq(s, 1, Len(prefix)) = prefix

\* the length of the longest prefix of s made of characters of set
SpanLen(s, set) ==
    IF \E i \in 1..Len(s) : s[i] \notin set
    THEN (CHOOSE i \in 1..Len(s) :
              /\ s[i] \notin set
              /\ \A j \in 1..(i - 1) : s[j] \in set) - 1
    ELSE Len(s)

\* str.strip()
LStrip(s) == DropFirst(s, SpanLen(s, WhiteSpace))
Reverse(s) == [i \in 1..Len(s) |-> s[Len(s) + 1 - i]]
RStrip(s) == Reverse(LStrip(Reverse(s)))
Strip(s) == RStrip(LStrip(s))

\* _LETTER_PREFIX = ^[a-zA-Z]\s*[-)]\s+ : the end of the match, 0 for no match.
\* LetterPrefixTail: the letter and the spaces after it end at `at`
LetterPrefixTail(s, at) ==
    IF at + 1 > Len(s) \/ s[at + 1] \notin {"-", ")"}
    THEN 0
    ELSE IF SpanLen(DropFirst(s, at + 1), WhiteSpace) = 0
    THEN 0
    ELSE at + 1 + SpanLen(DropFirst(s, at + 1), WhiteSpace)

LetterPrefixEnd(s) ==
    IF Len(s) = 0 \/ s[1] \notin Letters
    THEN 0
    ELSE LetterPrefixTail(s, 1 + SpanLen(DropFirst(s, 1), WhiteSpace))

\* text = text[match.end():] when _LETTER_PREFIX matches
StripLetterPrefix(s) == DropFirst(s, LetterPrefixEnd(s))

\* if text.startswith("- "): text = text[2:]
StripDash(s) == IF StartsWith(s, <<"-", " ">>) THEN DropFirst(s, 2) ELSE s

\* _PARENS.sub("", text), _PARENS = \([^)]*\)
RECURSIVE RemoveParens(_)
RemoveParens(s) ==
    IF \E i \in 1..Len(s) : s[i] = "(" /\ \E j \in (i + 1)..Len(s) : s[j] = ")"
    THEN LET i == CHOOSE i \in 1..Len(s) :
                      /\ s[i] = "("
                      /\ \A k \in 1..(i - 1) : s[k] # "("
             j == CHOOSE j \in (i + 1)..Len(s) :
                      /\ s[j] = ")"
                      /\ \A k \in (i + 1)..(j - 1) : s[k] # ")"
         IN  SubSeq(s, 1, i - 1) \o RemoveParens(DropFirst(s, j))
    ELSE s

\* re.sub(r"\s+", " ", text)
RECURSIVE CollapseSpaces(_)
CollapseSpaces(s) ==
    IF Len(s) = 0
    THEN s
    ELSE IF s[1] \in WhiteSpace
         THEN <<" ">> \o CollapseSpaces(DropFirst(s, SpanLen(s, WhiteSpace)))
         ELSE <<s[1]>> \o CollapseSpaces(DropFirst(s, 1))

\* a slip: the article loop without its `break`, which cuts each article that
\* matches in turn
StripArticleEach(s) ==
    LET cut(text, prefix) ==
            IF StartsWith(Lower(text), prefix) THEN DropFirst(text, Len(prefix)) ELSE text
    IN  cut(cut(cut(s, <<"t", "h", "e", " ">>), <<"a", "n", " ">>), <<"a", " ">>)

\* the article loop: the first of "the ", "an ", "a " that matches is cut, once
ArticlePrefixes == << <<"t", "h", "e", " ">>, <<"a", "n", " ">>, <<"a", " ">> >>
StripArticle(s) ==
    IF \E p \in 1..Len(ArticlePrefixes) : StartsWith(Lower(s), ArticlePrefixes[p])
    THEN LET p == CHOOSE p \in 1..Len(ArticlePrefixes) :
                      /\ StartsWith(Lower(s), ArticlePrefixes[p])
                      /\ \A q \in 1..(p - 1) :
                             ~StartsWith(Lower(s), ArticlePrefixes[q])
         IN  DropFirst(s, Len(ArticlePrefixes[p]))
    ELSE s

\* re.sub(r"^\d+\s+", "", text); QuantityEnd: the digits end at `d`
QuantityEnd(s, d) ==
    IF d > 0 /\ SpanLen(DropFirst(s, d), WhiteSpace) > 0
    THEN d + SpanLen(DropFirst(s, d), WhiteSpace)
    ELSE 0
StripQuantity(s) == DropFirst(s, QuantityEnd(s, SpanLen(s, Digits)))

\* InventoryStatsTracker._normalize_name, its statements innermost first
normalize_name(text) ==
    Strip(Lower(
        StripQuantity(
            StripArticle(
                CollapseSpaces(
                    RemoveParens(
                        Strip(
                            StripDash(
                                StripLetterPrefix(
                                    Strip(text))))))))))

\* InventoryStatsTracker._decode_line: cut at the first zero byte, drop the
\* bytes that do not decode (errors="ignore"), strip
Decodable(c) == c # BAD
decode_line(raw_line) ==
    LET cut == IF \E i \in 1..Len(raw_line) : raw_line[i] = NUL
               THEN SubSeq(raw_line, 1,
                           (CHOOSE i \in 1..Len(raw_line) :
                                /\ raw_line[i] = NUL
                                /\ \A j \in 1..(i - 1) : raw_line[j] # NUL) - 1)
               ELSE raw_line
    IN  Strip(SelectSeq(cut, Decodable))

(***************************************************************************)
(* Object classes of the game (nethack.*_CLASS) and CATEGORY_NAMES.        *)
(***************************************************************************)
WEAPON_CLASS == 2
ARMOR_CLASS == 3
RING_CLASS == 4
AMULET_CLASS == 5
TOOL_CLASS == 6
FOOD_CLASS == 7
POTION_CLASS == 8
SCROLL_CLASS == 9
SPBOOK_CLASS == 10
WAND_CLASS == 11
COIN_CLASS == 12
GEM_CLASS == 13
ROCK_CLASS == 14
BALL_CLASS == 15
CHAIN_CLASS == 16
VENOM_CLASS == 17
MAXOCLASSES == 18
\* a class code that CATEGORY_NAMES does not list
ILLOBJ_CLASS == 1

CATEGORY_NAMES ==
    (WEAPON_CLASS :> "weapon") @@ (ARMOR_CLASS :> "armor") @@ (RING_CLASS :> "ring")
    @@ (AMULET_CLASS :> "amulet") @@ (TOOL_CLASS :> "tool") @@ (FOOD_CLASS :> "food")
    @@ (POTION_CLASS :> "potion") @@ (SCROLL_CLASS :> "scroll")
    @@ (SPBOOK_CLASS :> "spellbook") @@ (WAND_CLASS :> "wand") @@ (COIN_CLASS :> "gold")
    @@ (GEM_CLASS :> "gem") @@ (ROCK_CLASS :> "rock") @@ (BALL_CLASS :> "ball")
    @@ (CHAIN_CLASS :> "chain") @@ (VENOM_CLASS :> "venom")

\* CATEGORY_NAMES.get(int(oclass), "unknown")
category_of(oclass) ==
    IF oclass \in DOMAIN CATEGORY_NAMES THEN CATEGORY_NAMES[oclass] ELSE "unknown"

(***************************************************************************)
(* Counters: collections.Counter and defaultdict(Counter).                 *)
(***************************************************************************)
\* counter.get(key, 0)
Get(counter, key) == IF key \in DOMAIN counter THEN counter[key] ELSE 0

\* counter[key] += quantity
Inc(counter, key, quantity) ==
    IF key \in DOMAIN counter
    THEN [counter EXCEPT ![key] = @ + quantity]
    ELSE counter @@ (key :> quantity)

\* nested[key][label] += quantity, nested a defaultdict(Counter)
NestedInc(nested, key, label, quantity) ==
    IF key \in DOMAIN nested
    THEN [nested EXCEPT ![key] = Inc(@, label, quantity)]
    ELSE nested @@ (key :> Inc(EmptyMap, label, quantity))

\* sum(counter.values())
RECURSIVE Total(_)
Total(counter) ==
    IF DOMAIN counter = {}
    THEN 0
    ELSE LET k == CHOOSE k \in DOMAIN counter : TRUE
         IN  counter[k] + Total([x \in DOMAIN counter \ {k} |-> counter[x]])

(***************************************************************************)
(* Raw observations: the inventory lines are null-padded byte buffers, the *)
(* object classes small integers.  An observation is the bundle            *)
(* <<inv_strs, inv_oclasses>>, read at the tracker's two indices.          *)
(***************************************************************************)
LineDagger ==
    <<"a", " ", "-", " ", "d", "a", "g", "g", "e", "r", NUL, NUL>>
LineRation ==
    <<"b", " ", "-", " ", "a", " ", "f", "o", "o", "d", " ", "r", "a", "t", "i", "o", "n", NUL>>
LineTheDagger ==
    <<"t", "h", "e", " ", "D", "a", "g", "g", "e", "r", " ", "(", "i", "n", " ", "h", "a", "n", "d", ")", NUL>>
LineZero ==
    <<NUL, NUL, NUL>>
LineParen ==
    <<"c", ")", " ", "(", "e", "m", "p", "t", "y", ")", NUL>>
LineBlank ==
    <<" ", " ", NUL, "x">>
LineBadByte ==
    <<"d", " ", "-", " ", "2", " ", BAD, "a", "r", "r", "o", "w", "s", NUL>>

Slot(raw_line, oclass) == [raw_line |-> raw_line, oclass |-> oclass]

\* the bundle whose channel 0 holds the lines and channel 1 the classes
Observation(slots) ==
    << [i \in 1..Len(slots) |-> slots[i].raw_line],
       [i \in 1..Len(slots) |-> slots[i].oclass] >>

\* observation[index]
Channel(observation, index) == observation[index + 1]

\* np.any(raw_line)
AnyNonZero(raw_line) == \E i \in 1..Len(raw_line) : raw_line[i] # NUL

\* InventorySnapshot(counts, categories, name_to_category)
InventorySnapshot(counts, categories, name_to_category) ==
    [counts |-> counts, categories |-> categories,
     name_to_category |-> name_to_category]

EmptySnapshot == InventorySnapshot(EmptyMap, EmptyMap, EmptyMap)

\* the raw lines of the model's observations
RawLines ==
    {LineDagger, LineRation, LineTheDagger, LineZero, LineParen, LineBlank, LineBadByte}

\* decoded = self._decode_line(raw_line); normalized = self._normalize_name(decoded)
DecodedLine(decoded) == [decoded |-> decoded, normalized |-> normalize_name(decoded)]

\* the decoding and the name of each of the model's raw lines, computed once
DecodedLines == [raw_line \in RawLines |-> DecodedLine(decode_line(raw_line))]

Decode(raw_line) == DecodedLines[raw_line]

\* a slip: the category is counted before the empty name is skipped
CountSlotEarly(snapshot, line, category_name) ==
    IF line.decoded = << >> \/ line.normalized = << >>
    THEN InventorySnapshot(snapshot.counts,
                           Inc(snapshot.categories, category_name, 1),
                           snapshot.name_to_category)
    ELSE InventorySnapshot(
             Inc(snapshot.counts, line.normalized, 1),
             Inc(snapshot.categories, category_name, 1),
             IF line.normalized \in DOMAIN snapshot.name_to_category
             THEN snapshot.name_to_category
             ELSE snapshot.name_to_category @@ (line.normalized :> category_name))

\* the end of an iteration of the loop of _extract_snapshot, from `if not decoded`
CountSlot(snapshot, line, category_name) ==
    IF line.decoded = << >> \/ line.normalized = << >>
    THEN snapshot
    ELSE InventorySnapshot(
             Inc(snapshot.counts, line.normalized, 1),
             Inc(snapshot.categories, category_name, 1),
             IF line.normalized \in DOMAIN snapshot.name_to_category
             THEN snapshot.name_to_category
             ELSE snapshot.name_to_category @@ (line.normalized :> category_name))

\* one iteration of the loop of _extract_snapshot
ExtractSlot(snapshot, raw_line, oclass) ==
    IF oclass = MAXOCLASSES
    THEN snapshot
    ELSE IF ~AnyNonZero(raw_line)
    THEN snapshot
    ELSE CountSlot(snapshot, Decode(raw_line), category_of(oclass))

\* the loop over zip(inv_strs, inv_oclasses), slots 1..n
RECURSIVE ExtractSlots(_, _, _)
ExtractSlots(inv_strs, inv_oclasses, n) ==
    IF n = 0
    THEN EmptySnapshot
    ELSE ExtractSlot(ExtractSlots(inv_strs, inv_oclasses, n - 1),
                     inv_strs[n], inv_oclasses[n])

Min(a, b) == IF a <= b THEN a ELSE b

\* the body of _extract_snapshot for the two channels of an observation
ExtractChannels(inv_strs, inv_oclasses) ==
    ExtractSlots(inv_strs, inv_oclasses, Min(Len(inv_strs), Len(inv_oclasses)))

\* the slots of the model's observations
SlotKinds ==
    <<Slot(LineDagger, WEAPON_CLASS), Slot(LineRation, FOOD_CLASS),
      Slot(LineZero, MAXOCLASSES), Slot(LineTheDagger, TOOL_CLASS),
      Slot(LineBadByte, ILLOBJ_CLASS), Slot(LineDagger, MAXOCLASSES),
      Slot(LineZero, WEAPON_CLASS), Slot(LineParen, FOOD_CLASS),
      Slot(LineBlank, FOOD_CLASS)>>
SlotSequences == [1..NumSlots -> {SlotKinds[k] : k \in 1..Len(SlotKinds)}]

\* ExtractChannels of the model's observations, computed once
ExtractedSnapshots ==
    [channels \in {Observation(slots) : slots \in SlotSequences} |->
        ExtractChannels(channels[1], channels[2])]

\* a slip: no observation is read as an empty inventory
extract_snapshot_empty(observation, strs_index, oclasses_index) ==
    IF observation = NoObservation
    THEN EmptySnapshot
    ELSE ExtractedSnapshots[<<Channel(observation, strs_index),
                              Channel(observation, oclasses_index)>>]

\* InventoryStatsTracker._extract_snapshot
extract_snapshot(observation, strs_index, oclasses_index) ==
    IF observation = NoObservation
    THEN NoSnapshot
    ELSE ExtractedSnapshots[<<Channel(observation, strs_index),
                              Channel(observation, oclasses_index)>>]

(***************************************************************************)
(* Actions of the game.  An action value is a member of one of the enum    *)
(* families of the nethack module, or a plain integer that is no member.   *)
(***************************************************************************)
ActionValue(family, name) == [family |-> family, name |-> name]

TRACKED_COMMANDS ==
    [EAT |-> "eat", QUAFF |-> "quaff", READ |-> "read", ZAP |-> "zap",
     APPLY |-> "apply", CAST |-> "cast", DIP |-> "dip", DROP |-> "drop",
     DROPTYPE |-> "drop", ENGRAVE |-> "engrave", FIRE |-> "fire",
     INVOKE |-> "invoke", LOOT |-> "loot", OFFER |-> "offer", PAY |-> "pay",
     PICKUP |-> "pickup", PUTON |-> "puton", REMOVE |-> "remove",
     TAKEOFF |-> "takeoff", TAKEOFFALL |-> "takeoffall", TIP |-> "tip",
     RUB |-> "rub", WEAR |-> "wear", WIELD |-> "wield", THROW |-> "throw",
     UNTRAP |-> "untrap"]

UNKNOWN_ACTION_LABEL == "unknown"

\* action_value in TRACKED_COMMANDS
IsTracked(action_value) ==
    action_value.family = "Command" /\ action_value.name \in DOMAIN TRACKED_COMMANDS

\* TRACKED_COMMANDS.get(action_value)
command_label_of(action_value) ==
    IF IsTracked(action_value) THEN TRACKED_COMMANDS[action_value.name] ELSE NoLabel

\* name.lower() and f"move_{name.lower()}" for the member names of the model
LowerName == [N |-> "n", UP |-> "up", WAIT |-> "wait", MORE |-> "more", SEARCH |-> "search"]
MoveName == [N |-> "move_n", UP |-> "move_up", WAIT |-> "move_wait"]
MiscDirectionNames == [UP |-> "move_up", DOWN |-> "move_down", WAIT |-> "wait"]

\* InventoryStatsTracker._action_to_label
action_to_label(action_value) ==
    IF IsTracked(action_value)
    THEN TRACKED_COMMANDS[action_value.name]
    ELSE IF action_value.family \in {"CompassDirection", "CompassDirectionLonger"}
    THEN MoveName[action_value.name]
    ELSE IF action_value.family = "MiscDirection"
    THEN IF action_value.name \in DOMAIN MiscDirectionNames
         THEN MiscDirectionNames[action_value.name]
         ELSE MoveName[action_value.name]
    ELSE IF action_value.family \in {"MiscAction", "Command"}
    THEN LowerName[action_value.name]
    ELSE UNKNOWN_ACTION_LABEL

\* a slip: a tracked action does not replace a label that is pending
pending_kept(pending, command_label) ==
    IF pending # NoLabel THEN pending ELSE command_label

\* a slip: the label is assigned without the test, so that an untracked
\* action drops the label that is pending
pending_expire(pending, command_label) == command_label

\* self._pending_action_label after lines 120-122 of record_step
pending_after_command(pending, command_label) ==
    IF command_label # NoLabel THEN command_label ELSE pending

\* a slip: the pending label is ignored
effective_label_own(pending, action_label) == action_label

\* effective_label = self._pending_action_label or action_label
effective_label_of(pending, action_label) ==
    IF pending # NoLabel THEN pending ELSE action_label

(***************************************************************************)
(* The episode counters.                                                   *)
(***************************************************************************)
\* ItemStats(acquired, actions)
ItemStats(acquired, actions) == [acquired |-> acquired, actions |-> actions]

\* a slip: `=` for `+=`
AddAcquired_set(mapping, key, quantity) ==
    IF key \in DOMAIN mapping
    THEN [mapping EXCEPT ![key].acquired = quantity]
    ELSE mapping @@ (key :> ItemStats(quantity, EmptyMap))

\* mapping[key].acquired += quantity, mapping a defaultdict(ItemStats)
AddAcquired(mapping, key, quantity) ==
    IF key \in DOMAIN mapping
    THEN [mapping EXCEPT ![key].acquired = @ + quantity]
    ELSE mapping @@ (key :> ItemStats(quantity, EmptyMap))

\* a slip: `=` for `+=`
AddAction_set(mapping, key, label, quantity) ==
    IF key \in DOMAIN mapping
    THEN [mapping EXCEPT ![key].actions =
             [l \in DOMAIN @ \cup {label} |-> IF l = label THEN quantity ELSE @[l]]]
    ELSE mapping @@ (key :> ItemStats(0, Inc(EmptyMap, label, quantity)))

\* mapping[key].actions[label] += quantity
AddAction(mapping, key, label, quantity) ==
    IF key \in DOMAIN mapping
    THEN [mapping EXCEPT ![key].actions = Inc(@, label, quantity)]
    ELSE mapping @@ (key :> ItemStats(0, Inc(EmptyMap, label, quantity)))

\* a slip: the pickup counter is left out of the reset
reset_stats_partial(self) ==
    [self EXCEPT
        !.pickups_by_class = EmptyMap,
        !.uses_by_action = EmptyMap,
        !.uses_by_name = EmptyMap,
        !.uses_by_class = EmptyMap,
        !.items_by_name = EmptyMap,
        !.categories_by_name = EmptyMap,
        !.current_snapshot = NoSnapshot,
        !.pending_action_label = NoLabel]

\* InventoryStatsTracker._reset_stats
reset_stats(self) ==
    [self EXCEPT
        !.pickups_by_name = EmptyMap,
        !.pickups_by_class = EmptyMap,
        !.uses_by_action = EmptyMap,
        !.uses_by_name = EmptyMap,
        !.uses_by_class = EmptyMap,
        !.items_by_name = EmptyMap,
        !.categories_by_name = EmptyMap,
        !.current_snapshot = NoSnapshot,
        !.pending_action_label = NoLabel]

\* InventoryStatsTracker.__init__
InventoryStatsTracker(inv_strs_index, inv_oclasses_index) ==
    reset_stats(
        [inv_strs_index |-> inv_strs_index,
         inv_oclasses_index |-> inv_oclasses_index,
         current_snapshot |-> NoSnapshot,
         pickups_by_name |-> EmptyMap, pickups_by_class |-> EmptyMap,
         uses_by_action |-> EmptyMap, uses_by_name |-> EmptyMap,
         uses_by_class |-> EmptyMap, items_by_name |-> EmptyMap,
         categories_by_name |-> EmptyMap,
         pending_action_label |-> NoLabel])

\* a slip: the indices are tested for truth, so that index 0 counts as absent
enabled_truthy(self) ==
    /\ self.inv_strs_index # NoIndex /\ self.inv_strs_index # 0
    /\ self.inv_oclasses_index # NoIndex /\ self.inv_oclasses_index # 0

\* InventoryStatsTracker.enabled
enabled(self) == self.inv_strs_index # NoIndex /\ self.inv_oclasses_index # NoIndex

\* a slip: the acquisition overwrites the name's total instead of adding to it
record_acquisition_overwrite(st, name, quantity, category) ==
    IF quantity <= 0
    THEN st
    ELSE [st EXCEPT
             !.pickups_by_name = [n \in DOMAIN @ \cup {name} |->
                                     IF n = name THEN quantity ELSE @[n]],
             !.pickups_by_class =
                 IF category # NoLabel THEN Inc(@, category, quantity) ELSE @,
             !.categories_by_name =
                 IF category # NoLabel THEN AddAcquired(@, category, quantity) ELSE @,
             !.items_by_name = AddAcquired(@, name, quantity)]

\* InventoryStatsTracker._record_acquisition
record_acquisition(st, name, quantity, category) ==
    IF quantity <= 0
    THEN st
    ELSE [st EXCEPT
             !.pickups_by_name = Inc(@, name, quantity),
             !.pickups_by_class =
                 IF category # NoLabel THEN Inc(@, category, quantity) ELSE @,
             !.categories_by_name =
                 IF category # NoLabel THEN AddAcquired(@, category, quantity) ELSE @,
             !.items_by_name = AddAcquired(@, name, quantity)]

\* name_to_category.get(name)
CategoryGet(snapshot, name) ==
    IF name \in DOMAIN snapshot.name_to_category
    THEN snapshot.name_to_category[name]
    ELSE NoLabel

\* the loop of _register_pickups over the names of `names`
RECURSIVE PickupLoop(_, _, _, _)
PickupLoop(st, before, after, names) ==
    IF names = {}
    THEN st
    ELSE LET name == CHOOSE n \in names : TRUE
             diff == after.counts[name] - Get(before.counts, name)
             st1 == IF diff > 0
                    THEN record_acquisition(st, name, diff, CategoryGet(after, name))
                    ELSE st
         IN  PickupLoop(st1, before, after, names \ {name})

\* a slip: the category of a name that `before` knows is taken from `before`
register_pickups_first(st, before, after) ==
    PickupLoop(st, before,
               [after EXCEPT !.name_to_category =
                   [n \in DOMAIN @ |->
                       IF n \in DOMAIN before.name_to_category
                       THEN before.name_to_category[n]
                       ELSE @[n]]],
               DOMAIN after.counts)

\* InventoryStatsTracker._register_pickups
register_pickups(st, before, after) ==
    PickupLoop(st, before, after, DOMAIN after.counts)

\* InventoryStatsTracker._register_initial_inventory
register_initial_inventory(st, snapshot) ==
    PickupLoop(st, EmptySnapshot, snapshot, DOMAIN snapshot.counts)

\* a slip: `if diff:` for `if diff > 0:`
is_usage_any(diff) == diff # 0

\* `if diff > 0:` of _register_usage
is_usage(diff) == diff > 0

\* the loop of _register_usage over the names of `names`; the result is the
\* pair of the counters and used_any
RECURSIVE UsageLoop(_, _, _, _, _, _)
UsageLoop(st, used_any, action_label, before, after, names) ==
    IF names = {}
    THEN [st |-> st, used |-> used_any]
    ELSE LET name == CHOOSE n \in names : TRUE
             diff == before.counts[name] - Get(after.counts, name)
             category == CategoryGet(before, name)
             st1 ==
                 IF is_usage(diff)
                 THEN [st EXCEPT
                          !.uses_by_action = Inc(@, action_label, diff),
                          !.uses_by_name = NestedInc(@, name, action_label, diff),
                          !.uses_by_class =
                              IF category # NoLabel
                              THEN NestedInc(@, category, action_label, diff)
                              ELSE @,
                          !.categories_by_name =
                              IF category # NoLabel
                              THEN AddAction(@, category, action_label, diff)
                              ELSE @,
                          !.items_by_name = AddAction(@, name, action_label, diff)]
                 ELSE st
         IN  UsageLoop(st1, used_any \/ is_usage(diff), action_label, before, after,
                       names \ {name})

\* a slip: the label is spent on the first name that decreased
register_usage_first(st, action_label, before, after) ==
    IF \E n \in DOMAIN before.counts : before.counts[n] > Get(after.counts, n)
    THEN UsageLoop(
             UsageLoop(st, FALSE, action_label, before, after,
                       {CHOOSE n \in DOMAIN before.counts :
                            before.counts[n] > Get(after.counts, n)}).st,
             TRUE, UNKNOWN_ACTION_LABEL, before, after,
             DOMAIN before.counts
                 \ {CHOOSE n \in DOMAIN before.counts :
                        before.counts[n] > Get(after.counts, n)})
    ELSE [st |-> st, used |-> FALSE]

\* InventoryStatsTracker._register_usage
register_usage(st, action_label, before, after) ==
    UsageLoop(st, FALSE, action_label, before, after, DOMAIN before.counts)

\* start_episode from `if snapshot is None`, the counters reset
StartFrom(cleared, snapshot) ==
    IF snapshot = NoSnapshot
    THEN [cleared EXCEPT !.current_snapshot = NoSnapshot]
    ELSE register_initial_inventory([cleared EXCEPT !.current_snapshot = snapshot],
                                    snapshot)

\* a slip: start_episode without the reset
start_episode_keep(self, observation) ==
    IF ~enabled(self)
    THEN self
    ELSE StartFrom(self,
                   extract_snapshot(observation, self.inv_strs_index,
                                    self.inv_oclasses_index))

\* InventoryStatsTracker.start_episode
start_episode(self, observation) ==
    IF ~enabled(self)
    THEN self
    ELSE StartFrom(reset_stats(self),
                   extract_snapshot(observation, self.inv_strs_index,
                                    self.inv_oclasses_index))

\* a slip: the pending label is never cleared
AfterUsage_keep(usage, pending, next_snapshot) ==
    [usage.st EXCEPT
        !.pending_action_label = pending,
        !.current_snapshot = next_snapshot]

\* a slip: the current snapshot is not advanced
AfterUsage_stale(usage, pending, next_snapshot) ==
    [usage.st EXCEPT
        !.pending_action_label =
            IF usage.used /\ pending # NoLabel THEN NoLabel ELSE pending]

\* record_step from `if used and self._pending_action_label`
AfterUsage(usage, pending, next_snapshot) ==
    [usage.st EXCEPT
        !.pending_action_label =
            IF usage.used /\ pending # NoLabel THEN NoLabel ELSE pending,
        !.current_snapshot = next_snapshot]

\* record_step from `effective_label = ...`, `picked` the tracker after
\* _register_pickups and `pending` its pending label after lines 120-122
AttributeUsage(picked, pending, action_label, before, next_snapshot) ==
    AfterUsage(register_usage(picked, effective_label_of(pending, action_label),
                              before, next_snapshot),
               pending, next_snapshot)

\* record_step from `self._register_pickups(...)`
DiffStep(self, action_value, next_snapshot) ==
    AttributeUsage(register_pickups(self, self.current_snapshot, next_snapshot),
                   pending_after_command(self.pending_action_label,
                                         command_label_of(action_value)),
                   action_to_label(action_value),
                   self.current_snapshot, next_snapshot)

\* record_step from `next_snapshot = ...`
StepFrom(self, action_value, next_snapshot) ==
    IF next_snapshot = NoSnapshot
    THEN self
    ELSE DiffStep(self, action_value, next_snapshot)

\* a slip: the first usable frame is registered like an initial inventory
record_step_register(self, action_value, observation) ==
    IF ~enabled(self)
    THEN self
    ELSE IF self.current_snapshot = NoSnapshot
    THEN StartFrom(self, extract_snapshot(observation, self.inv_strs_index,
                                          self.inv_oclasses_index))
    ELSE StepFrom(self, action_value,
                  extract_snapshot(observation, self.inv_strs_index,
                                   self.inv_oclasses_index))

\* InventoryStatsTracker.record_step
record_step(self, action_value, observation) ==
    IF ~enabled(self)
    THEN self
    ELSE IF self.current_snapshot = NoSnapshot
    THEN [self EXCEPT !.current_snapshot =
              extract_snapshot(observation, self.inv_strs_index,
                               self.inv_oclasses_index)]
    ELSE StepFrom(self, action_value,
                  extract_snapshot(observation, self.inv_strs_index,
                                   self.inv_oclasses_index))

\* InventoryStatsTracker._counter_to_dict
counter_to_dict(counter) ==
    [key \in {k \in DOMAIN counter : counter[k] # 0} |-> counter[key]]

\* InventoryStatsTracker._nested_counter_to_dict
nested_counter_to_dict(nested) ==
    [key \in {k \in DOMAIN nested : DOMAIN nested[k] # {}} |-> nested[key]]

\* InventoryStatsTracker._stats_to_dict
stats_to_dict(mapping) ==
    [key \in {k \in DOMAIN mapping :
                  \/ mapping[k].acquired # 0
                  \/ counter_to_dict(mapping[k].actions) # EmptyMap}
         |-> [acquired |-> mapping[key].acquired,
              actions |-> counter_to_dict(mapping[key].actions)]]

\* the metadata mapping finalize_episode builds
Metadata(self) ==
    [inv_pickups_by_name |-> counter_to_dict(self.pickups_by_name),
     inv_pickups_by_class |-> counter_to_dict(self.pickups_by_class),
     inv_uses_by_action |-> counter_to_dict(self.uses_by_action),
     inv_uses_by_name |-> nested_counter_to_dict(self.uses_by_name),
     inv_uses_by_class |-> nested_counter_to_dict(self.uses_by_class),
     inv_by_name |-> stats_to_dict(self.items_by_name),
     inv_by_category |-> stats_to_dict(self.categories_by_name)]

\* a slip: all() for any()
has_data_all(metadata) == \A key \in DOMAIN metadata : metadata[key] # EmptyMap

\* any(metadata.values())
has_data(metadata) == \E key \in DOMAIN metadata : metadata[key] # EmptyMap

\* InventoryStatsTracker.finalize_episode: the tracker afterwards and the
\* mapping returned
finalize_episode(self) ==
    IF ~enabled(self)
    THEN [self |-> self, returned |-> EmptyMap]
    ELSE LET metadata == Metadata(self)
         IN  [self |-> reset_stats(self),
              returned |-> IF has_data(metadata) THEN metadata ELSE EmptyMap]

(***************************************************************************)
(* The state machine: one tracker, driven by its environment through       *)
(* start_episode, record_step and finalize_episode.  A second machine      *)
(* applies the extractor to one observation.                               *)
(***************************************************************************)
VARIABLES
    tracker,           \* the InventoryStatsTracker object
    returned,          \* what the last call returned, if it was finalize_episode
    calls,             \* the number of calls made so far
    last,              \* the last call: its operation, action and what it saw
    scenario,          \* what the last two calls amount to, see ScenarioOf
    episode,           \* "open" from a start_episode with an observation to the
                       \* next start_episode or finalize_episode, then "closed"
    expected_pickups,  \* the episode's acquisitions, summed from the snapshots
    activity,          \* an acquisition or a usage happened since the last reset
    extraction         \* the extractor's input, and its output once it has run

vars ==
    <<tracker, returned, calls, last, scenario, episode, expected_pickups, activity,
      extraction>>

\* the inputs of the environment: the order of the slots does not matter to
\* the tracker when no two slots share a name, so the observations list
\* their slots in the order of SlotKinds
TrackerSlotKinds == 1..3
Observations ==
    {Observation([i \in 1..NumSlots |-> SlotKinds[kinds[i]]]) :
        kinds \in {k \in [1..NumSlots -> TrackerSlotKinds] :
                       \A i \in 1..(NumSlots - 1) : k[i] <= k[i + 1]}}
    \cup {NoObservation}
EAT == ActionValue("Command", "EAT")
PICKUP == ActionValue("Command", "PICKUP")
MOVE_N == ActionValue("CompassDirection", "N")
RAW_INT == ActionValue("int", "")
ActionValues == {EAT, PICKUP, MOVE_N, RAW_INT}
NoAction == ActionValue("", "")
IndexPairs == {<<NoIndex, NoIndex>>, <<0, NoIndex>>, <<NoIndex, 1>>, <<0, 1>>}

\* the canonical names of the model's lines
Names == {DecodedLines[raw_line].normalized : raw_line \in RawLines} \ {<< >>}

\* the snapshot the tracker's extractor makes of an observation
Seen(observation) ==
    extract_snapshot(observation, tracker.inv_strs_index, tracker.inv_oclasses_index)

\* the names whose quantity is larger in `after` than in `before`
Increased(before, after) ==
    {n \in DOMAIN after.counts : after.counts[n] > Get(before.counts, n)}

\* the names whose quantity is smaller in `after` than in `before`
Decreased(before, after) ==
    {n \in DOMAIN before.counts : before.counts[n] > Get(after.counts, n)}

\* both indices were given to the constructor
BothIndices == tracker.inv_strs_index # NoIndex /\ tracker.inv_oclasses_index # NoIndex

\* a record_step that compares its observation with the current snapshot
Diffs(observation) ==
    /\ BothIndices
    /\ tracker.current_snapshot # NoSnapshot
    /\ observation # NoObservation

Call(op, action_value, observation, diffed, decrease) ==
    [op |-> op, action |-> action_value, obs_none |-> observation = NoObservation,
     diffed |-> diffed, decrease |-> decrease]

\* what a diffing record_step amounts to, given the call before it:
\* "delayed": that call was a diffing record_step of a tracked action that saw
\*            no decrease, and this one is untracked and sees a decrease;
\* "override": a label was pending and this call's tracked action has another;
\* "held": a label was pending before that call, a diffing record_step of an
\*         untracked action that saw no decrease, and this one is untracked
\*         and sees a decrease
\* (a record_step that does not compare is "seeded" when it is the first
\* record_step with an observation after a start_episode without one; a
\* start_episode is "restarted" when it ends an episode that was not
\* finalized and in which a label is pending)
ScenarioOf(action_value, less) ==
    IF /\ last.op = "record_step" /\ last.diffed
       /\ IsTracked(last.action) /\ ~last.decrease
       /\ ~IsTracked(action_value) /\ less # {}
    THEN "delayed"
    ELSE IF /\ last.op = "record_step" /\ last.diffed
            /\ ~IsTracked(last.action) /\ ~last.decrease
            /\ ~IsTracked(action_value) /\ less # {}
            /\ tracker.pending_action_label # NoLabel
    THEN "held"
    ELSE IF /\ IsTracked(action_value)
            /\ tracker.pending_action_label # NoLabel
            /\ tracker.pending_action_label # TRACKED_COMMANDS[action_value.name]
    THEN "override"
    ELSE "none"

NotExtracting == [slots |-> << >>, done |-> FALSE, snapshot |-> NoSnapshot]

Init ==
    /\ \E pair \in IndexPairs : tracker = InventoryStatsTracker(pair[1], pair[2])
    /\ returned = EmptyMap
    /\ calls = 0
    /\ last = Call("__init__", NoAction, NoObservation, FALSE, FALSE)
    /\ scenario = "none"
    /\ episode = "none"
    /\ expected_pickups = EmptyMap
    /\ activity = FALSE
    /\ extraction = NotExtracting

\* the acquisitions of an episode after one more diffing step
MorePickups(pickups, before, after) ==
    [n \in DOMAIN pickups \cup Increased(before, after) |->
        Get(pickups, n)
        + IF n \in Increased(before, after)
          THEN after.counts[n] - Get(before.counts, n)
          ELSE 0]

\* what a start_episode that saw `snapshot` means for the episode
StartSeen(snapshot) ==
    /\ episode' = "open"
    /\ expected_pickups' = snapshot.counts
    /\ activity' = (DOMAIN snapshot.counts # {})

\* a call of start_episode
StartEpisodeCall(observation) ==
    /\ calls' = calls + 1
    /\ tracker' = start_episode(tracker, observation)
    /\ last' = Call("start_episode", NoAction, observation, FALSE, FALSE)
    /\ scenario' = IF /\ BothIndices /\ episode = "open"
                      /\ tracker.pending_action_label # NoLabel
                   THEN "restarted"
                   ELSE "none"
    /\ returned' = EmptyMap
    /\ IF BothIndices /\ observation # NoObservation
       THEN StartSeen(Seen(observation))
       ELSE /\ episode' = "none"
            /\ expected_pickups' = EmptyMap
            /\ activity' = FALSE
    /\ UNCHANGED extraction

StartEpisode(observation) ==
    /\ calls < MaxCalls
    /\ StartEpisodeCall(observation)

\* what a diffing record_step that saw `after` means for the episode
StepSeen(action_value, observation, before, after) ==
    /\ last' = Call("record_step", action_value, observation, TRUE,
                    Decreased(before, after) # {})
    /\ scenario' = ScenarioOf(action_value, Decreased(before, after))
    /\ expected_pickups' =
           IF episode # "open"
           THEN EmptyMap
           ELSE MorePickups(expected_pickups, before, after)
    /\ activity' = \/ activity
                   \/ Increased(before, after) # {}
                   \/ Decreased(before, after) # {}

\* a call of record_step
RecordStepCall(action_value, observation) ==
    /\ calls' = calls + 1
    /\ tracker' = record_step(tracker, action_value, observation)
    /\ returned' = EmptyMap
    /\ episode' = IF episode = "open" THEN "open" ELSE "none"
    /\ IF Diffs(observation)
       THEN StepSeen(action_value, observation, tracker.current_snapshot,
                     Seen(observation))
       ELSE /\ last' = Call("record_step", action_value, observation, FALSE, FALSE)
            /\ scenario' = IF /\ BothIndices /\ observation # NoObservation
                              /\ last.op = "start_episode" /\ last.obs_none
                           THEN "seeded"
                           ELSE "none"
            /\ expected_pickups' = IF episode # "open" THEN EmptyMap ELSE expected_pickups
            /\ UNCHANGED activity
    /\ UNCHANGED extraction

RecordStep(action_value, observation) ==
    /\ calls < MaxCalls
    /\ RecordStepCall(action_value, observation)

FinalizeEpisode ==
    /\ calls < MaxCalls
    /\ calls' = calls + 1
    /\ tracker' = finalize_episode(tracker).self
    /\ returned' = finalize_episode(tracker).returned
    /\ last' = Call("finalize_episode", NoAction, NoObservation, FALSE, FALSE)
    /\ scenario' = IF last.op = "finalize_episode" /\ returned # EmptyMap
                   THEN "refinalized"
                   ELSE "none"
    /\ episode' = IF episode = "open" THEN "closed" ELSE "none"
    /\ activity' = FALSE
    /\ UNCHANGED <<expected_pickups, extraction>>

Next ==
    \/ \E observation \in Observations : StartEpisode(observation)
    \/ \E action_value \in ActionValues, observation \in Observations :
           RecordStep(action_value, observation)
    \/ FinalizeEpisode

Spec == Init /\ [][Next]_vars

(***************************************************************************)
(* The extractor alone, on every observation made of SlotKinds.            *)
(***************************************************************************)
ExtractInit ==
    /\ tracker = InventoryStatsTracker(0, 1)
    /\ returned = EmptyMap
    /\ calls = 0
    /\ last = Call("__init__", NoAction, NoObservation, FALSE, FALSE)
    /\ scenario = "none"
    /\ episode = "none"
    /\ expected_pickups = EmptyMap
    /\ activity = FALSE
    /\ \E slots \in SlotSequences :
           extraction = [slots |-> slots, done |-> FALSE, snapshot |-> NoSnapshot]

Extract ==
    /\ ~extraction.done
    /\ extraction' =
           [extraction EXCEPT
               !.done = TRUE,
               !.snapshot = extract_snapshot(Observation(extraction.slots),
                                             tracker.inv_strs_index,
                                             tracker.inv_oclasses_index)]
    /\ UNCHANGED <<tracker, returned, calls, last, scenario, episode,
                   expected_pickups, activity>>

ExtractNext == Extract

SpecExtract == ExtractInit /\ [][ExtractNext]_vars

(***************************************************************************)
(* One episode of an enabled tracker, a step longer than the calls of      *)
(* Spec: start_episode, then MaxCalls calls of record_step.                *)
(***************************************************************************)
EpisodeActions == {EAT, MOVE_N}

EpisodeInit ==
    /\ tracker = InventoryStatsTracker(0, 1)
    /\ returned = EmptyMap
    /\ calls = 0
    /\ last = Call("__init__", NoAction, NoObservation, FALSE, FALSE)
    /\ scenario = "none"
    /\ episode = "none"
    /\ expected_pickups = EmptyMap
    /\ activity = FALSE
    /\ extraction = NotExtracting

EpisodeStart(observation) ==
    /\ calls = 0
    /\ StartEpisodeCall(observation)

EpisodeStep(action_value, observation) ==
    /\ calls \in 1..MaxCalls
    /\ RecordStepCall(action_value, observation)

EpisodeNext ==
    \/ \E observation \in Observations : EpisodeStart(observation)
    \/ \E action_value \in EpisodeActions, observation \in Observations :
           EpisodeStep(action_value, observation)

SpecEpisode == EpisodeInit /\ [][EpisodeNext]_vars

(***************************************************************************)
(* The name normalization alone, on texts put together from a slot-letter  *)
(* prefix, up to MaxTokens leading articles and quantities, a name and a   *)
(* tail.                                                                   *)
(***************************************************************************)
TextPrefixes == {<< >>, <<"a", " ", "-", " ">>, <<"f", ")", " ">>, <<" ", " ">>}
TextArticles == {<<"t", "h", "e", " ">>, <<"a", "n", " ">>, <<"a", " ">>, <<"T", "h", "e", " ">>}
TextQuantity == <<"3", " ">>
TextNames == {<<"s", "c", "r", "o", "l", "l", " ", "o", "f", " ", "i", "d", "e", "n", "t", "i", "f", "y">>, <<"d", "a", "g", "g", "e", "r", "s">>, <<"e", "l", "v", "e", "n", " ", "c", "l", "o", "a", "k">>}
TextTails == {<< >>, <<" ", "(", "w", "e", "a", "p", "o", "n", " ", "i", "n", " ", "h", "a", "n", "d", ")">>, <<" ", " ">>}
TextLeads == UNION {[1..n -> TextArticles \cup {TextQuantity}] : n \in 0..MaxTokens}

\* the tokens of `lead` from position i on, joined
RECURSIVE JoinFrom(_, _)
JoinFrom(lead, i) == IF i > Len(lead) THEN << >> ELSE lead[i] \o JoinFrom(lead, i + 1)

\* the text given to _normalize_name
TextOf(parts) == parts.prefix \o JoinFrom(parts.lead, 1) \o parts.name \o parts.tail

NormalizeInit ==
    /\ tracker = InventoryStatsTracker(0, 1)
    /\ returned = EmptyMap
    /\ calls = 0
    /\ last = Call("__init__", NoAction, NoObservation, FALSE, FALSE)
    /\ scenario = "none"
    /\ episode = "none"
    /\ expected_pickups = EmptyMap
    /\ activity = FALSE
    /\ \E prefix \in TextPrefixes, lead \in TextLeads, name \in TextNames, tail \in TextTails :
           extraction = [prefix |-> prefix, lead |-> lead, name |-> name, tail |-> tail,
                         done |-> FALSE, normalized |-> << >>]

Normalize ==
    /\ ~extraction.done
    /\ extraction' =
           [extraction EXCEPT
               !.done = TRUE,
               !.normalized = normalize_name(TextOf(extraction))]
    /\ UNCHANGED <<tracker, returned, calls, last, scenario, episode,
                   expected_pickups, activity>>

NormalizeNext == Normalize

SpecNormalize == NormalizeInit /\ [][NormalizeNext]_vars

(***************************************************************************)
(* One episode in which a name comes with more than one category: the      *)
(* dagger as a weapon and as a tool, in any order of the slots.            *)
(***************************************************************************)
CategorySlotKinds == {1, 3, 4}
CategorySlotSequences ==
    {[i \in 1..NumSlots |-> SlotKinds[kinds[i]]] :
        kinds \in [1..NumSlots -> CategorySlotKinds]}
CategoryObservations == {Observation(slots) : slots \in CategorySlotSequences}

CategoryStart(observation) ==
    /\ calls = 0
    /\ StartEpisodeCall(observation)

CategoryStep(action_value, observation) ==
    /\ calls \in 1..(MaxCalls - 1)
    /\ RecordStepCall(action_value, observation)

CategoryNext ==
    \/ \E observation \in CategoryObservations : CategoryStart(observation)
    \/ \E action_value \in EpisodeActions, observation \in CategoryObservations :
           CategoryStep(action_value, observation)

SpecCategory == EpisodeInit /\ [][CategoryNext]_vars

(***************************************************************************)
(* Properties.                                                             *)
(***************************************************************************)
MetadataKeys ==
    {"inv_pickups_by_name", "inv_pickups_by_class", "inv_uses_by_action",
     "inv_uses_by_name", "inv_uses_by_class", "inv_by_name", "inv_by_category"}

\* the action labels the model's actions can produce, and every tracked label
Labels ==
    {TRACKED_COMMANDS[c] : c \in DOMAIN TRACKED_COMMANDS}
    \cup {action_to_label(a) : a \in ActionValues}
    \cup {UNKNOWN_ACTION_LABEL}

\* uses_by_name[name][label], 0 when absent
Uses(self, name, label) ==
    IF name \in DOMAIN self.uses_by_name THEN Get(self.uses_by_name[name], label) ELSE 0

\* what this step adds to uses_by_name[name][label] and to uses_by_action[label]
AddedUse(name, label) == Uses(tracker', name, label) - Uses(tracker, name, label)
AddedAction(label) ==
    Get(tracker'.uses_by_action, label) - Get(tracker.uses_by_action, label)

\* this step is a call
IsCall(op) == calls' = calls + 1 /\ last'.op = op

\* this step is a record_step that compares two snapshots; the names that
\* decrease in it and by how much
IsDiffStep == IsCall("record_step") /\ last'.diffed
Less == Decreased(tracker.current_snapshot, tracker'.current_snapshot)
Drop(name) ==
    tracker.current_snapshot.counts[name] - Get(tracker'.current_snapshot.counts, name)

\* every decrease of this step is recorded under `label` and no other label
AllUnder(label) ==
    \A name \in Less : \A l \in Labels :
        AddedUse(name, l) = IF l = label THEN Drop(name) ELSE 0

\* pickups_by_name[name] as finalize_episode reported it
ReportedPickups(name) ==
    IF returned = EmptyMap THEN 0 ELSE Get(returned.inv_pickups_by_name, name)

\* C1: when an episode that start_episode began with an observation is
\* finalized, the pickups_by_name that finalize_episode reports is, for every
\* name, the quantity in the initial snapshot plus the sum of the positive
\* increases between consecutive extracted snapshots (expected_pickups).
C1_PickupsSumIncreases ==
    episode = "closed" =>
        /\ last.op = "finalize_episode"
        /\ \A name \in Names : ReportedPickups(name) = Get(expected_pickups, name)

\* an episode was finalized in which a record_step added to the initial items
C1_Witness ==
    /\ episode = "closed"
    /\ returned # EmptyMap
    /\ Total(returned.inv_pickups_by_name) > NumSlots

\* C2: every quantity in uses_by_action, uses_by_name and uses_by_class is
\* non-negative in every state, and no call adds a usage for a name whose
\* quantity in the current snapshot before the call was 0 or absent.
C2_UsageNonNegative ==
    /\ [](/\ \A label \in DOMAIN tracker.uses_by_action :
                tracker.uses_by_action[label] >= 0
          /\ \A name \in DOMAIN tracker.uses_by_name :
                \A label \in DOMAIN tracker.uses_by_name[name] :
                    tracker.uses_by_name[name][label] >= 0
          /\ \A category \in DOMAIN tracker.uses_by_class :
                \A label \in DOMAIN tracker.uses_by_class[category] :
                    tracker.uses_by_class[category][label] >= 0)
    /\ [][\A name \in Names :
              (\E label \in Labels : AddedUse(name, label) > 0)
              => /\ tracker.current_snapshot # NoSnapshot
                 /\ Get(tracker.current_snapshot.counts, name) > 0]_vars

\* a record_step recorded a usage
C2_Witness ==
    /\ last.op = "record_step"
    /\ last.decrease
    /\ tracker.uses_by_name # EmptyMap

\* C3: when a record_step that compares its observation with the current
\* snapshot issues a tracked action and sees no decrease, and the next
\* record_step issues an untracked action and sees a decrease, every decrease
\* is recorded under the tracked action's label and under no other label.
C3_DelayedUsageUnderPending ==
    [][(IsDiffStep /\ scenario' = "delayed")
           => /\ AllUnder(TRACKED_COMMANDS[last.action.name])
              /\ AddedAction(action_to_label(last'.action)) = 0
              /\ AddedAction(TRACKED_COMMANDS[last.action.name]) > 0]_vars

\* the delayed decrease happened under an action whose own label is "unknown"
C3_Witness ==
    /\ scenario = "delayed"
    /\ last.action = RAW_INT
    /\ tracker.uses_by_action # EmptyMap

\* C4: in a record_step that compares two snapshots and issues a tracked
\* action, every decrease is recorded under that action's label and no other,
\* whatever label was pending before; when there is no decrease that label is
\* the pending label afterwards.
C4_TrackedActionOverrides ==
    [][(IsDiffStep /\ IsTracked(last'.action))
           => /\ AllUnder(TRACKED_COMMANDS[last'.action.name])
              /\ Less = {} =>
                     tracker'.pending_action_label = TRACKED_COMMANDS[last'.action.name]]_vars

\* start {dagger: 1}; pickup adds the food ration; eat removes it
C4_Witness ==
    /\ scenario = "override"
    /\ last.action = EAT
    /\ tracker.pickups_by_name = (<<"d", "a", "g", "g", "e", "r">> :> 1)
           @@ (<<"f", "o", "o", "d", " ", "r", "a", "t", "i", "o", "n">> :> 1)
    /\ tracker.uses_by_action = [eat |-> 1]
    /\ tracker.uses_by_name =
           (<<"f", "o", "o", "d", " ", "r", "a", "t", "i", "o", "n">> :> [eat |-> 1])

\* C5: a finalize_episode that directly follows a finalize_episode returns {}.
C5_SecondFinalizeEmpty ==
    [][(last.op = "finalize_episode" /\ IsCall("finalize_episode"))
           => returned' = EmptyMap]_vars

\* the first of the two calls returned data
C5_Witness ==
    /\ scenario = "refinalized"
    /\ returned = EmptyMap

\* C6: a tracker constructed without one of its indices stays as constructed
\* under every call and finalize_episode returns {}; a tracker constructed
\* with both indices, index 0 included, is enabled: start_episode with an
\* observation gives it a current snapshot.
C6_DisabledIsInert ==
    /\ ~BothIndices =>
           /\ tracker = InventoryStatsTracker(tracker.inv_strs_index,
                                              tracker.inv_oclasses_index)
           /\ returned = EmptyMap
    /\ (BothIndices /\ last.op = "start_episode" /\ ~last.obs_none) =>
           tracker.current_snapshot # NoSnapshot

\* three calls were made on a tracker that has index 0 and lacks the other
C6_Witness ==
    /\ tracker.inv_strs_index = 0
    /\ tracker.inv_oclasses_index = NoIndex
    /\ calls = MaxCalls
    /\ last.op = "finalize_episode"

\* C7: a record_step without an observation, made while there is a current
\* snapshot, leaves the tracker as it was: counters, snapshot, pending label.
C7_NoneStepChangesNothing ==
    [][(IsCall("record_step") /\ last'.obs_none
            /\ tracker.current_snapshot # NoSnapshot)
           => tracker' = tracker]_vars

\* such a step was made with a tracked action and items in the inventory
C7_Witness ==
    /\ last.op = "record_step"
    /\ last.obs_none
    /\ IsTracked(last.action)
    /\ tracker.current_snapshot # NoSnapshot
    /\ tracker.current_snapshot.counts # EmptyMap
    /\ tracker.pending_action_label = NoLabel

\* C8: when two or more names decrease in one record_step, one label takes
\* all of them: each decrease is recorded under it, nothing under another
\* label, and uses_by_action of that label grows by the sum of the decreases.
C8_OneLabelPerStep ==
    [][(IsDiffStep /\ Cardinality(Less) >= 2)
           => \E label \in Labels :
                  /\ AllUnder(label)
                  /\ \A l \in Labels :
                         AddedAction(l) =
                             IF l = label
                             THEN Total([name \in Less |-> Drop(name)])
                             ELSE 0]_vars

\* the first record_step of an episode removed two names
C8_Witness ==
    /\ calls = 2
    /\ last.op = "record_step"
    /\ last.decrease
    /\ Cardinality(DOMAIN tracker.uses_by_name) >= 2

\* no zero in the mapping finalize_episode returned
NoZeroEntry(metadata) ==
    /\ \A key \in {"inv_pickups_by_name", "inv_pickups_by_class", "inv_uses_by_action"} :
           \A k \in DOMAIN metadata[key] : metadata[key][k] > 0
    /\ \A key \in {"inv_uses_by_name", "inv_uses_by_class"} :
           \A k \in DOMAIN metadata[key] :
               /\ DOMAIN metadata[key][k] # {}
               /\ \A l \in DOMAIN metadata[key][k] : metadata[key][k][l] > 0
    /\ \A key \in {"inv_by_name", "inv_by_category"} :
           \A k \in DOMAIN metadata[key] :
               /\ metadata[key][k].acquired >= 0
               /\ metadata[key][k].acquired > 0 \/ DOMAIN metadata[key][k].actions # {}
               /\ \A l \in DOMAIN metadata[key][k].actions :
                      metadata[key][k].actions[l] > 0

\* C9: finalize_episode of an enabled tracker returns {} exactly when no
\* acquisition and no usage was recorded since the last reset; otherwise it
\* returns the mapping of all seven keys, in which no entry is zero.
C9_EmptyIffNoActivity ==
    [][(IsCall("finalize_episode") /\ BothIndices)
           => /\ (returned' = EmptyMap) <=> ~activity
              /\ returned' # EmptyMap =>
                     /\ DOMAIN returned' = MetadataKeys
                     /\ NoZeroEntry(returned')]_vars

\* finalize_episode returned pickups and usages
C9_Witness ==
    /\ last.op = "finalize_episode"
    /\ returned # EmptyMap
    /\ returned.inv_uses_by_name # EmptyMap
    /\ returned.inv_pickups_by_class # EmptyMap

\* the slots of the extractor's input that hold an item with a name
CountedSlots ==
    {i \in 1..Len(extraction.slots) :
        /\ extraction.slots[i].oclass # MAXOCLASSES
        /\ AnyNonZero(extraction.slots[i].raw_line)
        /\ normalize_name(decode_line(extraction.slots[i].raw_line)) # << >>}

\* C10: in the snapshot of an observation the quantities of counts and of
\* categories have the same sum, the number of the slots that have neither the
\* sentinel class, nor an all-zero text, nor an empty name; and every name of
\* counts has a category.
C10_SnapshotSums ==
    extraction.done =>
        /\ Total(extraction.snapshot.counts) = Total(extraction.snapshot.categories)
        /\ Total(extraction.snapshot.counts) = Cardinality(CountedSlots)
        /\ DOMAIN extraction.snapshot.counts
               = DOMAIN extraction.snapshot.name_to_category

\* a slot whose name is empty was skipped beside a slot that was counted
C10_Witness ==
    /\ extraction.done
    /\ Cardinality(CountedSlots) = 1
    /\ \E i \in 1..Len(extraction.slots) :
           /\ extraction.slots[i].raw_line = LineParen
           /\ extraction.slots[i].oclass = FOOD_CLASS

\* no ItemStats of `before` is smaller in `after`
StatsGrow(before, after) ==
    \A key \in DOMAIN before :
        /\ key \in DOMAIN after
        /\ after[key].acquired >= before[key].acquired
        /\ \A label \in DOMAIN before[key].actions :
               Get(after[key].actions, label) >= before[key].actions[label]

\* the ItemStats by name and by category of an episode that has just begun
\* with `snapshot`: all of it acquired, no action
InitialItems(snapshot) ==
    [name \in DOMAIN snapshot.counts |-> ItemStats(snapshot.counts[name], EmptyMap)]
InitialCategories(snapshot) ==
    [category \in {snapshot.name_to_category[n] : n \in DOMAIN snapshot.counts} |->
        ItemStats(Total([n \in {m \in DOMAIN snapshot.counts :
                                    snapshot.name_to_category[m] = category}
                            |-> snapshot.counts[n]]),
                  EmptyMap)]

\* C11: across a record_step no ItemStats, by name or by category, loses an
\* entry, lowers acquired or lowers a quantity of actions; after the
\* start_episode of an enabled tracker the ItemStats are those of the initial
\* inventory alone, and empty when there is no observation.
C11_ItemStatsMonotone ==
    [][/\ IsCall("record_step") =>
              /\ StatsGrow(tracker.items_by_name, tracker'.items_by_name)
              /\ StatsGrow(tracker.categories_by_name, tracker'.categories_by_name)
       /\ (IsCall("start_episode") /\ BothIndices) =>
              IF tracker'.current_snapshot = NoSnapshot
              THEN /\ tracker'.items_by_name = EmptyMap
                   /\ tracker'.categories_by_name = EmptyMap
              ELSE /\ tracker'.items_by_name = InitialItems(tracker'.current_snapshot)
                   /\ tracker'.categories_by_name =
                          InitialCategories(tracker'.current_snapshot)]_vars

\* record_steps added to the acquisitions and to the actions of one name
C11_Witness ==
    /\ episode = "open"
    /\ last.op = "record_step"
    /\ \E name \in DOMAIN tracker.items_by_name :
           /\ tracker.items_by_name[name].acquired >= 2
           /\ tracker.items_by_name[name].actions # EmptyMap

\* the label a record_step of `action_value` records its decreases under,
\* given the label pending before it
Effective(pending, action_value) ==
    IF IsTracked(action_value)
    THEN TRACKED_COMMANDS[action_value.name]
    ELSE IF pending # NoLabel
    THEN pending
    ELSE action_to_label(action_value)

\* C12, as amended: the pending label is held until a usage consumes it or a
\* tracked action replaces it, over any number of steps.  A record_step of an
\* untracked action that sees no decrease leaves the pending label as it was,
\* and one that sees a decrease records every decrease under the label pending
\* before it, also when the step before it was itself an untracked step
\* without a decrease (the usage first seen two or more steps after the
\* tracked action).
C12_HeldUntilUsed ==
    [][(IsDiffStep /\ ~IsTracked(last'.action))
           => /\ AllUnder(Effective(tracker.pending_action_label, last'.action))
              /\ Less = {} =>
                     tracker'.pending_action_label = tracker.pending_action_label
              /\ scenario' = "held" =>
                     /\ AllUnder(tracker.pending_action_label)
                     /\ AddedAction(action_to_label(last'.action)) = 0]_vars

\* eat without a decrease, a move without a decrease, then a move with the
\* decrease, which is recorded under "eat"
C12_Witness ==
    /\ scenario = "held"
    /\ last.action = MOVE_N
    /\ tracker.uses_by_action = [eat |-> 1]
    /\ tracker.pending_action_label = NoLabel

\* C12, as claimed: the pending label is held over one step only.  When the
\* step before was a diffing record_step of an untracked action that saw no
\* decrease, a label set before that step no longer decides the attribution:
\* the decreases of an untracked step are recorded under its own label.
C12_HeldOneStepOnly ==
    [][(/\ IsDiffStep /\ ~IsTracked(last'.action)
        /\ last.op = "record_step" /\ last.diffed
        /\ ~IsTracked(last.action) /\ ~last.decrease)
           => AllUnder(action_to_label(last'.action))]_vars

\* the tokens left of `lead` when one leading article, and then one leading
\* quantity, are taken away
AfterArticle(lead) ==
    IF lead # << >> /\ lead[1] \in TextArticles THEN Tail(lead) ELSE lead
AfterQuantity(lead) ==
    IF lead # << >> /\ lead[1] = TextQuantity THEN Tail(lead) ELSE lead

\* C13: the canonical name of a text is its name, in lower case, behind the
\* leading tokens that remain when the slot-letter prefix, the parenthesized
\* tail and the outer blanks are gone, at most one leading article is cut and
\* then, after the article, one leading quantity; in particular
\* "a - the scroll of identify" gives "scroll of identify",
\* "f) 3 daggers (weapon in hand)" gives "daggers" and "  an elven cloak  "
\* gives "elven cloak".
C13_NormalizePipeline ==
    extraction.done =>
        extraction.normalized =
            Lower(JoinFrom(AfterQuantity(AfterArticle(extraction.lead)), 1))
                \o extraction.name

\* "f) 3 daggers (weapon in hand)" was normalized
C13_Witness ==
    /\ extraction.done
    /\ TextOf(extraction) = <<"f", ")", " ", "3", " ", "d", "a", "g", "g", "e", "r", "s", " ", "(", "w", "e", "a", "p", "o", "n", " ", "i", "n", " ", "h", "a", "n", "d", ")">>
    /\ extraction.normalized = <<"d", "a", "g", "g", "e", "r", "s">>

\* this step is a record_step that records a usage
RecordsUsage == IsDiffStep /\ Less # {}

\* C14: after a record_step that records a usage no label is pending, so that
\* the decreases of an untracked record_step that directly follows it, or that
\* finds no label pending, are recorded under that action's own label; a
\* record_step that records no usage leaves the pending label as it was,
\* unless it compares snapshots and its action is tracked, whose label is
\* then pending.
C14_UsageClearsPending ==
    [][IsCall("record_step")
           => /\ RecordsUsage => tracker'.pending_action_label = NoLabel
              /\ (/\ RecordsUsage /\ ~IsTracked(last'.action)
                  /\ \/ tracker.pending_action_label = NoLabel
                     \/ last.op = "record_step" /\ last.diffed /\ last.decrease)
                     => /\ AllUnder(action_to_label(last'.action))
                        /\ AddedAction(action_to_label(last'.action)) > 0
              /\ ~RecordsUsage =>
                     tracker'.pending_action_label =
                         IF IsDiffStep /\ IsTracked(last'.action)
                         THEN TRACKED_COMMANDS[last'.action.name]
                         ELSE tracker.pending_action_label]_vars

\* eat removed one item and cleared its label, then a move removed the other
C14_Witness ==
    /\ last.op = "record_step"
    /\ last.action = MOVE_N
    /\ tracker.pending_action_label = NoLabel
    /\ tracker.uses_by_action = [eat |-> 1, move_n |-> 1]

\* the names, the categories and the labels that a counter of `self` holds
NamesOf(self) ==
    DOMAIN self.items_by_name \cup DOMAIN self.pickups_by_name \cup DOMAIN self.uses_by_name
CategoriesOf(self) ==
    DOMAIN self.categories_by_name \cup DOMAIN self.pickups_by_class
        \cup DOMAIN self.uses_by_class
LabelsOf(self) ==
    DOMAIN self.uses_by_action
        \cup UNION {DOMAIN self.uses_by_name[n] : n \in DOMAIN self.uses_by_name}
        \cup UNION {DOMAIN self.uses_by_class[c] : c \in DOMAIN self.uses_by_class}
        \cup UNION {DOMAIN self.items_by_name[n].actions : n \in DOMAIN self.items_by_name}
        \cup UNION {DOMAIN self.categories_by_name[c].actions :
                        c \in DOMAIN self.categories_by_name}

\* uses_by_class[category][label], 0 when absent
ClassUses(self, category, label) ==
    IF category \in DOMAIN self.uses_by_class
    THEN Get(self.uses_by_class[category], label)
    ELSE 0

\* categories_by_name[category].acquired, 0 when absent
ClassAcquired(self, category) ==
    IF category \in DOMAIN self.categories_by_name
    THEN self.categories_by_name[category].acquired
    ELSE 0

\* the sum of amount[n] over the names n of `names`
SumOver(names, amount) == Total([n \in names |-> amount[n]])

\* the increases and the decreases of this step, by name
Gains == [n \in Increased(tracker.current_snapshot, tracker'.current_snapshot) |->
             tracker'.current_snapshot.counts[n] - Get(tracker.current_snapshot.counts, n)]
Losses == [n \in Less |-> Drop(n)]

\* the categories and the labels that this step can have counted under
StepCategories ==
    CategoriesOf(tracker) \cup CategoriesOf(tracker')
        \cup {tracker.current_snapshot.name_to_category[n] :
                  n \in DOMAIN tracker.current_snapshot.name_to_category}
        \cup {tracker'.current_snapshot.name_to_category[n] :
                  n \in DOMAIN tracker'.current_snapshot.name_to_category}
StepLabels ==
    LabelsOf(tracker) \cup LabelsOf(tracker')
        \cup {Effective(tracker.pending_action_label, last'.action)}

\* the category of the first slot of `slots` that is counted under `name`
FirstSlotCategory(slots, name) ==
    LET counted == {i \in 1..Len(slots) :
                        /\ slots[i].oclass # MAXOCLASSES
                        /\ AnyNonZero(slots[i].raw_line)
                        /\ Decode(slots[i].raw_line).normalized = name}
    IN  category_of(slots[CHOOSE i \in counted : \A j \in counted : i <= j].oclass)

\* name_to_category of `snapshot` holds, for each name, the category of the
\* first slot with that name in every observation that gives the snapshot
FirstSlotWins(snapshot) ==
    \A slots \in CategorySlotSequences :
        ExtractedSnapshots[Observation(slots)] = snapshot =>
            \A name \in DOMAIN snapshot.counts :
                snapshot.name_to_category[name] = FirstSlotCategory(slots, name)

\* C15, as amended: the category-based counts of a record_step follow the two
\* snapshots it compares, not the episode: an increase of a name is counted in
\* pickups_by_class and in the per-category acquired under the category the
\* name has in the new snapshot, a decrease in uses_by_class under the
\* category the name has in the previous snapshot, and in each snapshot a
\* name has the category of the first slot that carries it.
C15_CategoryOfSnapshot ==
    [][IsDiffStep
           => /\ FirstSlotWins(tracker'.current_snapshot)
              /\ \A category \in StepCategories :
                     /\ Get(tracker'.pickups_by_class, category)
                            - Get(tracker.pickups_by_class, category)
                        = SumOver({n \in DOMAIN Gains :
                                       tracker'.current_snapshot.name_to_category[n]
                                           = category}, Gains)
                     /\ ClassAcquired(tracker', category) - ClassAcquired(tracker, category)
                        = SumOver({n \in DOMAIN Gains :
                                       tracker'.current_snapshot.name_to_category[n]
                                           = category}, Gains)
                     /\ \A label \in StepLabels :
                            ClassUses(tracker', category, label)
                                - ClassUses(tracker, category, label)
                            = IF label = Effective(tracker.pending_action_label,
                                                   last'.action)
                              THEN SumOver({n \in DOMAIN Losses :
                                                tracker.current_snapshot.name_to_category[n]
                                                    = category}, Losses)
                              ELSE 0]_vars

\* the dagger was acquired once as a weapon and once as a tool
C15_Witness ==
    /\ last.op = "record_step"
    /\ tracker.pickups_by_name = (<<"d", "a", "g", "g", "e", "r">> :> 2)
    /\ tracker.pickups_by_class = [weapon |-> 1, tool |-> 1]

\* the category first seen for a name by the record_step that follows
\* start_episode: that of the initial snapshot if the name is in it
FirstSeen(name) ==
    IF name \in DOMAIN tracker.current_snapshot.name_to_category
    THEN tracker.current_snapshot.name_to_category[name]
    ELSE tracker'.current_snapshot.name_to_category[name]

\* C15, as claimed: the category-based counts of a name are recorded under
\* the category first seen for the name in the episode.  In the record_step
\* that follows a start_episode with an observation, every increase is
\* counted in pickups_by_class under the first-seen category of its name.
C15_FirstSeenCategory ==
    [][(IsDiffStep /\ last.op = "start_episode" /\ ~last.obs_none)
           => \A category \in StepCategories :
                  Get(tracker'.pickups_by_class, category)
                      - Get(tracker.pickups_by_class, category)
                  = SumOver({n \in DOMAIN Gains : FirstSeen(n) = category}, Gains)]_vars

\* pickups_by_name grows in this step by the increases between the two
\* snapshots, and by nothing else
PickupsGrowByGains ==
    \A name \in Names :
        Get(tracker'.pickups_by_name, name) - Get(tracker.pickups_by_name, name)
            = Get(Gains, name)

\* C16: a record_step with an observation, made by an enabled tracker that
\* has no current snapshot (as after a start_episode without an observation),
\* changes the current snapshot and nothing else: no pickup, no usage, no
\* pending label, whatever its action; the record_step with an observation
\* that follows it compares with the snapshot installed and counts the
\* increases from it.
C16_SeedOnly ==
    [][IsCall("record_step")
           => /\ (/\ BothIndices /\ ~last'.obs_none
                  /\ tracker.current_snapshot = NoSnapshot)
                     => /\ tracker'.current_snapshot # NoSnapshot
                        /\ tracker' = [tracker EXCEPT !.current_snapshot =
                                                          tracker'.current_snapshot]
              /\ scenario' = "seeded" =>
                     /\ tracker'.pickups_by_name = EmptyMap
                     /\ tracker'.uses_by_action = EmptyMap
                     /\ tracker'.pending_action_label = NoLabel
              /\ (scenario = "seeded" /\ ~last'.obs_none)
                     => /\ last'.diffed
                        /\ PickupsGrowByGains]_vars

\* start_episode without an observation, then a tracked action on an
\* inventory with items: the items are the current snapshot and no counter
\* or label has changed
C16_Witness ==
    /\ scenario = "seeded"
    /\ IsTracked(last.action)
    /\ tracker.current_snapshot # NoSnapshot
    /\ tracker.current_snapshot.counts # EmptyMap
    /\ tracker.pickups_by_name = EmptyMap
    /\ tracker.pending_action_label = NoLabel

\* the quantities by category of an inventory acquired at once
InitialClasses(snapshot) ==
    [category \in DOMAIN InitialCategories(snapshot) |->
        InitialCategories(snapshot)[category].acquired]

\* C17: right after a start_episode of an enabled tracker, whatever calls
\* came before, no label is pending, the usage counters are empty and the
\* pickup counters hold the quantities of the observation's items and nothing
\* else; without an observation they are empty and there is no snapshot.
C17_NoLeakAcrossEpisodes ==
    [][(IsCall("start_episode") /\ BothIndices)
           => /\ tracker'.pending_action_label = NoLabel
              /\ tracker'.uses_by_action = EmptyMap
              /\ tracker'.uses_by_name = EmptyMap
              /\ tracker'.uses_by_class = EmptyMap
              /\ last'.obs_none <=> tracker'.current_snapshot = NoSnapshot
              /\ IF last'.obs_none
                 THEN /\ tracker'.pickups_by_name = EmptyMap
                      /\ tracker'.pickups_by_class = EmptyMap
                 ELSE /\ tracker'.pickups_by_name = tracker'.current_snapshot.counts
                      /\ tracker'.pickups_by_class =
                             InitialClasses(tracker'.current_snapshot)]_vars

\* an episode with a pending label was cut short by a start_episode that saw
\* one item
C17_Witness ==
    /\ scenario = "restarted"
    /\ last.op = "start_episode"
    /\ Total(tracker.pickups_by_name) = 1
    /\ tracker.pending_action_label = NoLabel

\* the usages of `name` under all labels
UsedOf(self, name) ==
    IF name \in DOMAIN self.uses_by_name THEN Total(self.uses_by_name[name]) ELSE 0

\* C18: in every state of an episode that start_episode began with an
\* observation, for every name, what was picked up less what was used is the
\* quantity of the name in the current snapshot.
C18_Conservation ==
    episode = "open" =>
        /\ tracker.current_snapshot # NoSnapshot
        /\ DOMAIN tracker.pickups_by_name \subseteq Names
        /\ DOMAIN tracker.uses_by_name \subseteq Names
        /\ \A name \in Names :
               Get(tracker.pickups_by_name, name) - UsedOf(tracker, name)
                   = Get(tracker.current_snapshot.counts, name)

\* an episode in which an item was picked up after the start and an item was
\* used, with an item still in the inventory
C18_Witness ==
    /\ episode = "open"
    /\ calls = MaxCalls
    /\ tracker.uses_by_name # EmptyMap
    /\ Total(tracker.pickups_by_name) > Total(tracker.current_snapshot.counts)
    /\ tracker.current_snapshot.counts # EmptyMap
    /\ \E name \in DOMAIN tracker.pickups_by_name : name \notin DOMAIN tracker.uses_by_name

\* items_by_name[name] and categories_by_name[category], absent read as
\* ItemStats()
ItemOf(self, name) ==
    IF name \in DOMAIN self.items_by_name
    THEN self.items_by_name[name]
    ELSE ItemStats(0, EmptyMap)
CategoryOf(self, category) ==
    IF category \in DOMAIN self.categories_by_name
    THEN self.categories_by_name[category]
    ELSE ItemStats(0, EmptyMap)

\* C19: in every state the counters agree: the ItemStats of a name hold its
\* pickups_by_name and its uses_by_name, the ItemStats of a category its
\* pickups_by_class and its uses_by_class, uses_by_action of a label is the
\* sum of uses_by_name over the names, and pickups_by_class and
\* pickups_by_name have the same total (a quantity that is absent reads 0).
C19_CountersAgree ==
    /\ \A name \in NamesOf(tracker) :
           /\ ItemOf(tracker, name).acquired = Get(tracker.pickups_by_name, name)
           /\ \A label \in LabelsOf(tracker) :
                  Get(ItemOf(tracker, name).actions, label) = Uses(tracker, name, label)
    /\ \A category \in CategoriesOf(tracker) :
           /\ CategoryOf(tracker, category).acquired
                  = Get(tracker.pickups_by_class, category)
           /\ \A label \in LabelsOf(tracker) :
                  Get(CategoryOf(tracker, category).actions, label)
                      = ClassUses(tracker, category, label)
    /\ \A label \in LabelsOf(tracker) :
           Get(tracker.uses_by_action, label)
               = Total([name \in NamesOf(tracker) |-> Uses(tracker, name, label)])
    /\ Total(tracker.pickups_by_class) = Total(tracker.pickups_by_name)

\* two names of two categories were acquired and one of them used twice
C19_Witness ==
    /\ Cardinality(DOMAIN tracker.pickups_by_class) = 2
    /\ Cardinality(DOMAIN tracker.items_by_name) = 2
    /\ \E label \in DOMAIN tracker.uses_by_action : tracker.uses_by_action[label] >= 2
====
